---- MODULE Spec2Model ----
(***************************************************************************)
(* A model of the peon-ping OpenCode plugin (src/peon-ping.ts): the        *)
(* config and state stores, the pack resolver, the sound selector, the     *)
(* rapid-prompt detector and the event handler.                            *)
(*                                                                         *)
(* JavaScript objects used as maps (Record<string, T>) are functions whose *)
(* DOMAIN is the set of keys that are present; a missing key is a key      *)
(* outside the DOMAIN.  Math.random() is a nondeterministic index.  Time   *)
(* (Date.now() / 1000) is counted in whole seconds, and config.volume in   *)
(* hundredths.                                                             *)
(***************************************************************************)
EXTENDS Integers, Sequences, FiniteSets, TLC

VARIABLES
    configFile,   \* config.json: [kind, raw]
    stateFile,    \* state.json: [kind, raw]
    packs,        \* packs/<name>/manifest.json, by pack directory name
    soundFiles,   \* the <<pack, file>> pairs present under packs/<name>/sounds
    now,          \* the wall clock, in seconds
    ev,           \* the host event handled last
    out,          \* what the handler of that event did
    hist,         \* by session, the time of every user message the detector observed
    man,          \* pickSound's manifest argument
    cfg,          \* resolveActivePack's config argument
    mem,          \* the in-memory PeonState both functions work on
    calls,        \* the calls made so far, with their results
    procs,        \* the handler invocations running in separate processes
    race          \* what the invocations loaded and saved, in order

vars == <<configFile, stateFile, packs, soundFiles, now, ev, out, hist,
          man, cfg, mem, calls, procs, race>>

eventVars == <<configFile, stateFile, packs, soundFiles, now, ev, out, hist>>
fnVars == <<man, cfg, mem, calls>>
raceVars == <<procs, race>>

-----------------------------------------------------------------------------
(* Bounds of the model. *)

MaxSounds == 3      \* longest sounds list drawn for pickSound
MaxRotation == 2    \* longest pack_rotation drawn for resolveActivePack
MaxTime == 13       \* the clock stops advancing here
MaxLoads == 3       \* loads and saves of config.json per behaviour
MaxInvocations == 2 \* handler invocations overlapping in one event loop
MaxPrompts == 4     \* user messages observed per behaviour

-----------------------------------------------------------------------------
(* Values. *)

Category == {"greeting", "complete", "error", "permission", "annoyed"}
File == {"a.mp3", "b.mp3"}
Line == {"Work, work."}
Pack == {"peon", "peasant", "ghost"}
Session == {"", "s1", "s2"}

SoundEntry == [file : File, line : Line]

EmptyRecord == [k \in {} |-> k]

Has(rec, k) == k \in DOMAIN rec

\* rec[k] ?? d
Get(rec, k, d) == IF k \in DOMAIN rec THEN rec[k] ELSE d

\* rec[k] = v
Put(rec, k, v) == [x \in DOMAIN rec \cup {k} |-> IF x = k THEN v ELSE rec[x]]

\* { ...a, ...b }
Spread(a, b) == [x \in DOMAIN a \cup DOMAIN b |-> IF x \in DOMAIN b THEN b[x] ELSE a[x]]

SeqsUpTo(S, n) == UNION {[1..k -> S] : k \in 0..n}

Includes(seq, x) == \E i \in 1..Len(seq) : seq[i] = x

-----------------------------------------------------------------------------
(* The stores. *)

DEFAULT_CATEGORIES == [c \in Category |-> TRUE]

DEFAULT_CONFIG ==
    [active_pack |-> "peon",
     volume |-> 50,
     paused |-> FALSE,
     categories |-> DEFAULT_CATEGORIES,
     annoyed_threshold |-> 3,
     annoyed_window_seconds |-> 10,
     pack_rotation |-> <<>>]

EMPTY_STATE ==
    [last_played |-> EmptyRecord,
     prompt_timestamps |-> EmptyRecord,
     session_packs |-> EmptyRecord]

\* A file is missing, holds text that is not JSON, or holds a JSON object.
Missing == [kind |-> "missing", raw |-> EmptyRecord]
Invalid == [kind |-> "invalid", raw |-> EmptyRecord]
Json(raw) == [kind |-> "json", raw |-> raw]

\* Mutant: the parsed record is returned without the defaults under it.
loadConfig_NoDefaults(file) ==
    IF file.kind = "json" THEN file.raw ELSE DEFAULT_CONFIG

loadConfig(file) ==
    IF file.kind = "json" THEN Spread(DEFAULT_CONFIG, file.raw) ELSE DEFAULT_CONFIG

\* loadConfig writes the defaults when there is no config file.
configAfterLoad(file) ==
    IF file.kind = "missing" THEN Json(DEFAULT_CONFIG) ELSE file

saveConfig(config) == Json(config)

loadState(file) ==
    IF file.kind = "json"
    THEN [last_played |-> Get(file.raw, "last_played", EmptyRecord),
          prompt_timestamps |-> Get(file.raw, "prompt_timestamps", EmptyRecord),
          session_packs |-> Get(file.raw, "session_packs", EmptyRecord)]
    ELSE EMPTY_STATE

\* Mutant: the write keeps the entries of the file that the state being
\* saved does not have.
saveState_Merge(state) ==
    Json([last_played |-> Spread(loadState(stateFile).last_played, state.last_played),
          prompt_timestamps |->
              Spread(loadState(stateFile).prompt_timestamps, state.prompt_timestamps),
          session_packs |-> Spread(loadState(stateFile).session_packs, state.session_packs)])

saveState(state) == Json(state)

-----------------------------------------------------------------------------
(* The sound selector. *)

Null == [kind |-> "null", file |-> "", line |-> ""]
TypeError == [kind |-> "TypeError", file |-> "", line |-> ""]
Entry(s) == [kind |-> "entry", file |-> s.file, line |-> s.line]

\* cat?.sounds?.length
soundsOf(manifest, category) ==
    IF Has(manifest.categories, category)
    THEN manifest.categories[category].sounds
    ELSE <<>>

\* Mutant: the last played file is not excluded.
candidatesOf_NoExclusion(sounds, lastFile) == sounds

\* Mutant: the last played file is excluded from a single sound too.
candidatesOf_AlwaysExclude(sounds, lastFile) ==
    SelectSeq(sounds, LAMBDA s : s.file # lastFile)

candidatesOf(sounds, lastFile) ==
    IF Len(sounds) <= 1
    THEN sounds
    ELSE SelectSeq(sounds, LAMBDA s : s.file # lastFile)

\* Math.random() takes the values rnd / RandomSteps, rnd \in Random: enough
\* of them for Math.floor(Math.random() * n) to reach every index of the
\* arrays the model builds.
RandomSteps == MaxSounds + 1
Random == 0..(RandomSteps - 1)

\* Math.floor(Math.random() * n), as a 1-based index
randomIndex(rnd, n) == ((rnd * n) \div RandomSteps) + 1

\* Mutant: only a category missing from the manifest returns null.
pickSound_AbsentOnly(manifest, category, state, rnd) ==
    LET sounds == soundsOf(manifest, category)
        lastFile == Get(state.last_played, category, "")
        candidates == candidatesOf(sounds, lastFile)
        i == randomIndex(rnd, Len(candidates))
    IN  IF ~Has(manifest.categories, category)
        THEN [ret |-> Null, state |-> state]
        ELSE IF i \notin 1..Len(candidates)
        THEN [ret |-> TypeError, state |-> state]
        ELSE [ret |-> Entry(candidates[i]),
              state |-> [state EXCEPT
                  !.last_played = Put(@, category, candidates[i].file)]]

\* Mutant: the pick is returned without being recorded.
pickSound_NoRecord(manifest, category, state, rnd) ==
    LET sounds == soundsOf(manifest, category)
        lastFile == Get(state.last_played, category, "")
        candidates == candidatesOf(sounds, lastFile)
        i == randomIndex(rnd, Len(candidates))
    IN  IF Len(sounds) = 0
        THEN [ret |-> Null, state |-> state]
        ELSE IF i \notin 1..Len(candidates)
        THEN [ret |-> TypeError, state |-> state]
        ELSE [ret |-> Entry(candidates[i]), state |-> state]

\* pickSound with Math.random() = rnd / RandomSteps.  With no candidates
\* the element read is undefined, and reading its file raises a TypeError.
pickSound(manifest, category, state, rnd) ==
    LET sounds == soundsOf(manifest, category)
        lastFile == Get(state.last_played, category, "")
        candidates == candidatesOf(sounds, lastFile)
        i == randomIndex(rnd, Len(candidates))
    IN  IF Len(sounds) = 0
        THEN [ret |-> Null, state |-> state]
        ELSE IF i \notin 1..Len(candidates)
        THEN [ret |-> TypeError, state |-> state]
        ELSE [ret |-> Entry(candidates[i]),
              state |-> [state EXCEPT
                  !.last_played = Put(@, category, candidates[i].file)]]

-----------------------------------------------------------------------------
(* The pack resolver. *)

\* Mutant: a stored pack is kept without looking it up in the rotation.
isSticky_NoMembership(config, state, sessionID) ==
    /\ Has(state.session_packs, sessionID)
    /\ state.session_packs[sessionID] # ""

\* Mutant: a pack is picked afresh at every event.
isSticky_Never(config, state, sessionID) == FALSE

\* existing && config.pack_rotation.includes(existing)
isSticky(config, state, sessionID) ==
    /\ Has(state.session_packs, sessionID)
    /\ state.session_packs[sessionID] # ""
    /\ Includes(config.pack_rotation, state.session_packs[sessionID])

\* Mutant: the stored pack is looked up before the rotation is tested for
\* being empty.
resolveActivePack_StoredFirst(config, state, sessionID, rnd) ==
    IF Has(state.session_packs, sessionID) /\ state.session_packs[sessionID] # ""
    THEN [ret |-> state.session_packs[sessionID], state |-> state]
    ELSE IF Len(config.pack_rotation) = 0
    THEN [ret |-> config.active_pack, state |-> state]
    ELSE LET picked == config.pack_rotation[randomIndex(rnd, Len(config.pack_rotation))]
         IN  [ret |-> picked,
              state |-> [state EXCEPT !.session_packs = Put(@, sessionID, picked)]]

resolveActivePack(config, state, sessionID, rnd) ==
    IF Len(config.pack_rotation) = 0
    THEN [ret |-> config.active_pack, state |-> state]
    ELSE IF isSticky(config, state, sessionID)
    THEN [ret |-> state.session_packs[sessionID], state |-> state]
    ELSE LET picked == config.pack_rotation[randomIndex(rnd, Len(config.pack_rotation))]
         IN  [ret |-> picked,
              state |-> [state EXCEPT !.session_packs = Put(@, sessionID, picked)]]

-----------------------------------------------------------------------------
(* The event handler. *)

TERMINALS == {"Terminal", "iTerm2", "Warp", "Alacritty", "kitty", "WezTerm", "Ghostty"}

HandledType == {"session.created", "session.idle", "session.error",
                "permission.asked", "message.updated"}

NoEvent == [type |-> "none", props |-> EmptyRecord]

\* What the handler of one event did: where it returned, the category,
\* session id and notify flag it had by then, the pack and sound it
\* resolved (and the pack stored for the session that the resolver read),
\* whether it asked for playback and for a notification, the foreground
\* application it was told, and its effects in order.
NoOutput ==
    [returned |-> "none", category |-> "none", sessionID |-> "", notify |-> FALSE,
     notifyMessage |-> "", existing |-> "", pack |-> "", sound |-> Null,
     played |-> FALSE, app |-> "", notified |-> FALSE, steps |-> <<>>]

\* switch (event.type): the category ("none" for null), the notify flag, the
\* notification text and the session id.
classify(e) ==
    CASE e.type = "session.created" ->
            [category |-> "greeting", notify |-> FALSE, notifyMessage |-> "",
             sessionID |-> e.props.sessionID]
      [] e.type = "session.idle" ->
            [category |-> "complete", notify |-> TRUE, notifyMessage |-> "Task complete",
             sessionID |-> e.props.sessionID]
      [] e.type = "session.error" ->
            [category |-> "error", notify |-> TRUE, notifyMessage |-> "Session error",
             sessionID |-> Get(e.props, "sessionID", "")]
      [] e.type = "permission.asked" ->
            [category |-> "permission", notify |-> TRUE, notifyMessage |-> "Permission needed",
             sessionID |-> e.props.sessionID]
      [] e.type = "message.updated" ->
            [category |-> "none", notify |-> FALSE, notifyMessage |-> "",
             sessionID |-> e.props.sessionID]

\* Mutant: the pause flag is not looked at.
isPaused_Never(config) == FALSE

\* if (config.paused) return
isPaused(config) == config.paused

\* Mutant: the role of a message is not looked at.
isIgnored_AnyRole(e) == e.type \notin HandledType

\* default: return, and a message whose role is not user
isIgnored(e) ==
    \/ e.type \notin HandledType
    \/ e.type = "message.updated" /\ e.props.role # "user"

\* The user message reaches the rapid-prompt detector.
isObserved(config, e) ==
    /\ ~isPaused(config)
    /\ e.type = "message.updated"
    /\ e.props.role = "user"

\* Mutant: the stored timestamps are kept however old they are.
observe_NoExpiry(config, state, sessionID, t) ==
    [state EXCEPT !.prompt_timestamps =
        Put(@, sessionID, Append(Get(state.prompt_timestamps, sessionID, <<>>), t))]

\* Mutant: the current time is pushed onto the list of every session on
\* record.
observe_EverySession(config, state, sessionID, t) ==
    LET timestamps == SelectSeq(Get(state.prompt_timestamps, sessionID, <<>>),
                                LAMBDA x : t - x < config.annoyed_window_seconds)
        pushed == [s \in DOMAIN state.prompt_timestamps |->
                      Append(state.prompt_timestamps[s], t)]
    IN  [state EXCEPT !.prompt_timestamps = Put(pushed, sessionID, Append(timestamps, t))]

\* The stored timestamps of the session still in the window, then now.
observe(config, state, sessionID, t) ==
    LET timestamps == SelectSeq(Get(state.prompt_timestamps, sessionID, <<>>),
                                LAMBDA x : t - x < config.annoyed_window_seconds)
    IN  [state EXCEPT !.prompt_timestamps = Put(@, sessionID, Append(timestamps, t))]

\* Mutant: a category whose key is missing is taken as switched off.
isDisabled_Falsy(config, category) ==
    ~(Has(config.categories, category) /\ config.categories[category] = TRUE)

\* config.categories[category] === false
isDisabled(config, category) ==
    Has(config.categories, category) /\ config.categories[category] = FALSE

\* timestamps.length >= threshold && config.categories.annoyed !== false
isAnnoyed(config, state, sessionID) ==
    /\ Len(state.prompt_timestamps[sessionID]) >= config.annoyed_threshold
    /\ ~isDisabled(config, "annoyed")

\* The answers of the frontmost-process query: a terminal, another
\* application, and a failed query.
Query == {[ok |-> TRUE, text |-> "iTerm2"], [ok |-> TRUE, text |-> "Safari"],
          [ok |-> FALSE, text |-> ""]}

\* Mutant: a failed query counts as a terminal in front.
focusedOn_FailedAsFocused(query) == ~query.ok \/ query.text \in TERMINALS

\* focused = terminals.includes(app), and false when the query failed
focusedOn(query) == query.ok /\ query.text \in TERMINALS

\* The handler's return value is not modelled; each of the operators below
\* gives the set of ways the rest of the handler can go, one for each value
\* of Math.random() and each answer of the frontmost-process query, as
\* records [stateFile, out].

\* if (notify) { ... }
notifyIfUnfocused(file, o) ==
    IF ~o.notify
    THEN {[stateFile |-> file, out |-> [o EXCEPT !.returned = "end"]]}
    ELSE {[stateFile |-> file,
           out |-> [o EXCEPT !.returned = "end", !.app = query.text,
                             !.notified = ~focusedOn(query),
                             !.steps = IF focusedOn(query)
                                       THEN Append(@, "await frontmost")
                                       ELSE @ \o <<"await frontmost", "display notification">>]] :
            query \in Query}

\* After pickSound returned: save, then playback and the notification.
emit(o, state) ==
    LET file == saveState(state)
        saved == [o EXCEPT !.steps = Append(@, "saveState")]
    IN  IF o.sound.kind = "null"
        THEN {[stateFile |-> file, out |-> [saved EXCEPT !.returned = "no sound"]]}
        ELSE IF <<o.pack, o.sound.file>> \notin soundFiles
        THEN {[stateFile |-> file, out |-> [saved EXCEPT !.returned = "no file"]]}
        ELSE notifyIfUnfocused(file, [saved EXCEPT !.played = TRUE,
                                                   !.steps = Append(@, "afplay")])

\* From the state load to the sound: the pack, the manifest and the pick,
\* all in memory.  returned is "picked" when the handler goes on to save.
choose(config, file, o) ==
    UNION {
      LET withPack == [o EXCEPT !.pack = resolved.ret,
                                !.existing = Get(loadState(file).session_packs,
                                                 o.sessionID, "")]
      IN  IF ~Has(packs, resolved.ret)
          THEN {[returned |-> "no manifest", out |-> withPack, state |-> resolved.state]}
          ELSE {IF picked.ret.kind = "TypeError"
                THEN [returned |-> "TypeError", out |-> withPack, state |-> resolved.state]
                ELSE [returned |-> "picked", out |-> [withPack EXCEPT !.sound = picked.ret],
                      state |-> picked.state] :
                picked \in {pickSound(packs[resolved.ret], o.category, resolved.state, rnd) :
                               rnd \in Random}} :
      resolved \in {resolveActivePack(config, loadState(file), o.sessionID, rnd) :
                       rnd \in Random}}

\* Mutant: the state is saved also when the handler returns for want of a
\* manifest.
play_SaveAlways(config, file, o) ==
    IF o.category = "none"
    THEN {[stateFile |-> file, out |-> [o EXCEPT !.returned = "no category"]]}
    ELSE IF isDisabled(config, o.category)
    THEN {[stateFile |-> file, out |-> [o EXCEPT !.returned = "disabled"]]}
    ELSE UNION {IF c.returned = "picked"
                THEN emit(c.out, c.state)
                ELSE {[stateFile |-> saveState(c.state),
                       out |-> [c.out EXCEPT !.returned = c.returned]]} :
                c \in choose(config, file, o)}

\* From the category on: the opt-out, then the sound and what follows it.
\* file is state.json as the switch left it.
play(config, file, o) ==
    IF o.category = "none"
    THEN {[stateFile |-> file, out |-> [o EXCEPT !.returned = "no category"]]}
    ELSE IF isDisabled(config, o.category)
    THEN {[stateFile |-> file, out |-> [o EXCEPT !.returned = "disabled"]]}
    ELSE UNION {IF c.returned = "picked"
                THEN emit(c.out, c.state)
                ELSE {[stateFile |-> file, out |-> [c.out EXCEPT !.returned = c.returned]]} :
                c \in choose(config, file, o)}

\* Mutant: the timestamps are saved only when the threshold is reached.
handle_SaveWhenAnnoyed(e, t) ==
    LET config == loadConfig(configFile)
    IN  IF isPaused(config)
        THEN {[stateFile |-> stateFile, out |-> [NoOutput EXCEPT !.returned = "paused"]]}
        ELSE IF isIgnored(e)
        THEN {[stateFile |-> stateFile, out |-> [NoOutput EXCEPT !.returned = "ignored"]]}
        ELSE LET c == classify(e)
                 o == [NoOutput EXCEPT !.category = c.category, !.notify = c.notify,
                                       !.notifyMessage = c.notifyMessage,
                                       !.sessionID = c.sessionID]
             IN  IF e.type = "message.updated"
                 THEN LET state == observe(config, loadState(stateFile), c.sessionID, t)
                      IN  IF isAnnoyed(config, state, c.sessionID)
                          THEN play(config, saveState(state),
                                    [o EXCEPT !.steps = <<"saveState">>,
                                              !.category = "annoyed"])
                          ELSE play(config, stateFile, o)
                 ELSE play(config, stateFile, o)

\* The handler of event e at time t.
handle(e, t) ==
    LET config == loadConfig(configFile)
    IN  IF isPaused(config)
        THEN {[stateFile |-> stateFile, out |-> [NoOutput EXCEPT !.returned = "paused"]]}
        ELSE IF isIgnored(e)
        THEN {[stateFile |-> stateFile, out |-> [NoOutput EXCEPT !.returned = "ignored"]]}
        ELSE LET c == classify(e)
                 o == [NoOutput EXCEPT !.category = c.category, !.notify = c.notify,
                                       !.notifyMessage = c.notifyMessage,
                                       !.sessionID = c.sessionID]
             IN  IF e.type = "message.updated"
                 THEN LET state == observe(config, loadState(stateFile), c.sessionID, t)
                      IN  play(config, saveState(state),
                               [o EXCEPT !.steps = <<"saveState">>,
                                         !.category = IF isAnnoyed(config, state, c.sessionID)
                                                      THEN "annoyed" ELSE "none"])
                 ELSE play(config, stateFile, o)

Observations == UNION {{<<s, i>> : i \in 1..Len(hist[s])} : s \in DOMAIN hist}

event(e) ==
    /\ isObserved(loadConfig(configFile), e) => Cardinality(Observations) < MaxPrompts
    /\ \E h \in handle(e, now) :
          /\ stateFile' = h.stateFile
          /\ out' = h.out
    /\ configFile' = configAfterLoad(configFile)
    /\ ev' = e
    /\ hist' = IF isObserved(loadConfig(configFile), e)
               THEN Put(hist, e.props.sessionID,
                        Append(Get(hist, e.props.sessionID, <<>>), now))
               ELSE hist
    /\ UNCHANGED <<packs, soundFiles, now>>
    /\ UNCHANGED fnVars
    /\ UNCHANGED raceVars

\* The clock moves on.
Tick ==
    /\ now < MaxTime
    /\ now' = now + 1
    /\ ev' = NoEvent
    /\ out' = NoOutput
    /\ UNCHANGED <<configFile, stateFile, packs, soundFiles, hist>>
    /\ UNCHANGED fnVars
    /\ UNCHANGED raceVars

\* The peon_toggle tool; status changes nothing.
peon_toggle(action) ==
    LET config == loadConfig(configFile)
    IN  /\ configFile' =
              CASE action = "toggle" -> saveConfig([config EXCEPT !.paused = ~config.paused])
                [] action = "pause" -> saveConfig([config EXCEPT !.paused = TRUE])
                [] action = "resume" -> saveConfig([config EXCEPT !.paused = FALSE])
                [] action = "status" -> configAfterLoad(configFile)
        /\ ev' = NoEvent
        /\ out' = NoOutput
        /\ UNCHANGED <<stateFile, packs, soundFiles, now, hist>>
        /\ UNCHANGED fnVars
        /\ UNCHANGED raceVars

\* The peon_pack tool with a pack name: the pack must have a manifest.
peon_pack(pack) ==
    LET config == loadConfig(configFile)
    IN  /\ configFile' =
              IF Has(packs, pack)
              THEN saveConfig([config EXCEPT !.active_pack = pack])
              ELSE configAfterLoad(configFile)
        /\ ev' = NoEvent
        /\ out' = NoOutput
        /\ UNCHANGED <<stateFile, packs, soundFiles, now, hist>>
        /\ UNCHANGED fnVars
        /\ UNCHANGED raceVars

\* The user edits config.json by hand.
editConfig(file) ==
    /\ configFile' = file
    /\ ev' = NoEvent
    /\ out' = NoOutput
    /\ UNCHANGED <<stateFile, packs, soundFiles, now, hist>>
    /\ UNCHANGED fnVars
    /\ UNCHANGED raceVars

-----------------------------------------------------------------------------
(* Values that stay fixed in a specification that does not use them. *)


IdleEvents ==
    /\ configFile = Missing
    /\ stateFile = Missing
    /\ packs = EmptyRecord
    /\ soundFiles = {}
    /\ now = 0
    /\ ev = NoEvent
    /\ out = NoOutput
    /\ hist = EmptyRecord

IdleFns ==
    /\ man = [name |-> "", display_name |-> "", categories |-> EmptyRecord]
    /\ cfg = DEFAULT_CONFIG
    /\ mem = EMPTY_STATE
    /\ calls = <<>>

IdleRace ==
    /\ procs = <<>>
    /\ race = <<>>

-----------------------------------------------------------------------------
(* pickSound on drawn inputs: a manifest in which each of two categories   *)
(* is absent or lists up to MaxSounds sounds, any prior last_played, then  *)
(* selections for the two categories one after another.  calls keeps       *)
(* the last_played the run started from and the last two results of each   *)
(* category.                                                               *)

PickedCategory == {"complete", "error"}
LastFile == File \cup {"old.mp3"}

PartialFns(K, V) == UNION {[D -> V] : D \in SUBSET K}

LastTwo(seq) == IF Len(seq) <= 2 THEN seq ELSE SubSeq(seq, Len(seq) - 1, Len(seq))

InitPick ==
    /\ IdleEvents
    /\ IdleRace
    /\ cfg = DEFAULT_CONFIG
    /\ \E cats \in PartialFns(PickedCategory, [sounds : SeqsUpTo(SoundEntry, MaxSounds)]) :
          man = [name |-> "peon", display_name |-> "Orc Peon", categories |-> cats]
    /\ \E lp \in PartialFns(PickedCategory, LastFile) :
          mem = [EMPTY_STATE EXCEPT !.last_played = lp]
    /\ calls = [start |-> mem.last_played,
                rets |-> [c \in PickedCategory |-> <<>>]]

Pick(category) ==
    /\ \E rnd \in Random :
          LET res == pickSound(man, category, mem, rnd)
          IN  /\ mem' = res.state
              /\ calls' = [calls EXCEPT
                     !.rets[category] = LastTwo(Append(@, res.ret))]
    /\ UNCHANGED <<man, cfg>>
    /\ UNCHANGED eventVars
    /\ UNCHANGED raceVars

NextPick == \E category \in PickedCategory : Pick(category)

SpecPick == InitPick /\ [][NextPick]_vars

-----------------------------------------------------------------------------
(* resolveActivePack on drawn inputs: any active pack, any rotation, any    *)
(* stored session_packs, then calls one after another.                     *)

InitResolve ==
    /\ IdleEvents
    /\ IdleRace
    /\ man = [name |-> "", display_name |-> "", categories |-> EmptyRecord]
    /\ \E a \in Pack, rot \in SeqsUpTo(Pack, MaxRotation) :
          cfg = [DEFAULT_CONFIG EXCEPT !.active_pack = a, !.pack_rotation = rot]
    /\ \E sp \in PartialFns(Session, Pack) :
          mem = [EMPTY_STATE EXCEPT !.session_packs = sp]
    /\ calls = <<>>

Resolve(sessionID) ==
    /\ \E rnd \in Random :
          LET res == resolveActivePack(cfg, mem, sessionID, rnd)
          IN  /\ mem' = res.state
              /\ calls' = <<[sessionID |-> sessionID, ret |-> res.ret, before |-> mem]>>
    /\ UNCHANGED <<man, cfg>>
    /\ UNCHANGED eventVars
    /\ UNCHANGED raceVars

NextResolve == \E sessionID \in Session : Resolve(sessionID)

SpecResolve == InitResolve /\ [][NextResolve]_vars

-----------------------------------------------------------------------------
(* loadConfig on drawn files: config.json missing, not JSON, or an object  *)
(* with any of the fields, then loads and saves of what was loaded.  calls *)
(* lists them with the file each load read.                                *)

\* A value other than the default for each field.
OVERRIDES ==
    [active_pack |-> "peasant",
     volume |-> 80,
     paused |-> TRUE,
     categories |-> [error |-> FALSE],
     annoyed_threshold |-> 5,
     annoyed_window_seconds |-> 20,
     pack_rotation |-> <<"peon", "peasant">>]

DrawnConfigs == {[f \in D |-> OVERRIDES[f]] : D \in SUBSET DOMAIN OVERRIDES}

InitConfig ==
    /\ IdleRace
    /\ configFile \in {Missing, Invalid} \cup {Json(raw) : raw \in DrawnConfigs}
    /\ stateFile = Missing
    /\ packs = EmptyRecord
    /\ soundFiles = {}
    /\ now = 0
    /\ ev = NoEvent
    /\ out = NoOutput
    /\ hist = EmptyRecord
    /\ man = [name |-> "", display_name |-> "", categories |-> EmptyRecord]
    /\ cfg = DEFAULT_CONFIG
    /\ mem = EMPTY_STATE
    /\ calls = <<>>

configFrame ==
    /\ UNCHANGED <<stateFile, packs, soundFiles, now, ev, out, hist>>
    /\ UNCHANGED <<man, mem>>
    /\ UNCHANGED raceVars

Load ==
    /\ Len(calls) < MaxLoads
    /\ cfg' = loadConfig(configFile)
    /\ configFile' = configAfterLoad(configFile)
    /\ calls' = Append(calls, [op |-> "load", file |-> configFile, ret |-> cfg'])
    /\ configFrame

\* The record last loaded is written back.
Save ==
    /\ Len(calls) < MaxLoads
    /\ Len(calls) > 0
    /\ configFile' = saveConfig(cfg)
    /\ calls' = Append(calls, [op |-> "save", file |-> configFile', ret |-> cfg])
    /\ UNCHANGED cfg
    /\ configFrame

NextConfig == Load \/ Save

SpecConfig == InitConfig /\ [][NextConfig]_vars

-----------------------------------------------------------------------------
(* Claims about pickSound, under SpecPick. *)

FileIds(sounds) == {sounds[i].file : i \in 1..Len(sounds)}

IsOneOf(ret, sounds) ==
    /\ ret.kind = "entry"
    /\ \E i \in 1..Len(sounds) : ret = Entry(sounds[i])

AB == <<[file |-> "a.mp3", line |-> "Work, work."],
        [file |-> "b.mp3", line |-> "Work, work."]>>

\* C1: in a category with at least two sound entries, two selections one
\* right after the other never return the same file id, whatever
\* last_played was to begin with; when the entries carry at least two
\* different file ids every selection returns one of the entries; and with
\* sounds [a.mp3, b.mp3], from last_played unset as from any other start,
\* a selection returns one of the two and records it in last_played, and
\* the selection after it returns the other.
C1_NonRepetition ==
    \A c \in PickedCategory :
        LET sounds == soundsOf(man, c)
            rets == calls.rets[c]
        IN  Len(sounds) >= 2 =>
              /\ (Len(rets) = 2 /\ rets[1].kind = "entry" /\ rets[2].kind = "entry")
                    => rets[1].file # rets[2].file
              /\ Cardinality(FileIds(sounds)) >= 2
                    => \A k \in 1..Len(rets) : IsOneOf(rets[k], sounds)
              /\ (sounds = AB /\ Len(rets) >= 1)
                    => /\ rets[1].file \in {"a.mp3", "b.mp3"}
                       /\ mem.last_played[c] = rets[Len(rets)].file
                       /\ Len(rets) = 2 => {rets[1].file, rets[2].file} = {"a.mp3", "b.mp3"}

\* Two selections in a row of a category listing a.mp3 and b.mp3, starting
\* from no last_played: both returned, one each.
C1_Witness ==
    /\ soundsOf(man, "complete") = AB
    /\ ~Has(calls.start, "complete")
    /\ Len(calls.rets["complete"]) = 2
    /\ calls.rets["complete"][1].file = "b.mp3"
    /\ calls.rets["complete"][2].file = "a.mp3"

\* C2: in a category with exactly one sound entry every selection returns
\* that entry, whether last_played was unset, that entry's file or another
\* file; it never returns null and never raises.
C2_SingleSound ==
    \A c \in PickedCategory :
        Len(soundsOf(man, c)) = 1 =>
            \A k \in 1..Len(calls.rets[c]) :
                calls.rets[c][k] = Entry(soundsOf(man, c)[1])

\* The one sound selected twice in a row, the second time with last_played
\* already naming it, from a run that began with another file recorded.
C2_Witness ==
    /\ Len(soundsOf(man, "error")) = 1
    /\ Get(calls.start, "error", "") = "old.mp3"
    /\ Len(calls.rets["error"]) = 2
    /\ calls.rets["error"][2] = Entry(soundsOf(man, "error")[1])
    /\ mem.last_played["error"] = soundsOf(man, "error")[1].file

-----------------------------------------------------------------------------
(* Claims about resolveActivePack, under SpecResolve. *)

\* C4: with a non-empty pack_rotation every call returns a member of the
\* rotation, for every session id and stored state, a stale sticky value
\* included; the returned pack is the one session_packs then holds for the
\* session (kept sticky or just picked), so active_pack is returned only as
\* such a rotation member.
C4_RotationOverride ==
    (Len(calls) = 1 /\ Len(cfg.pack_rotation) > 0) =>
        LET call == calls[1]
        IN  /\ Includes(cfg.pack_rotation, call.ret)
            /\ Get(mem.session_packs, call.sessionID, "") = call.ret
            /\ call.ret = cfg.active_pack => Includes(cfg.pack_rotation, cfg.active_pack)
            /\ isSticky(cfg, call.before, call.sessionID)
                  => (call.ret = call.before.session_packs[call.sessionID] /\ mem = call.before)

\* A call for a session whose stored pack had left the rotation, with
\* active_pack outside the rotation too.
C4_Witness ==
    /\ Len(calls) = 1
    /\ Len(cfg.pack_rotation) > 0
    /\ ~Includes(cfg.pack_rotation, cfg.active_pack)
    /\ Has(calls[1].before.session_packs, calls[1].sessionID)
    /\ ~Includes(cfg.pack_rotation, calls[1].before.session_packs[calls[1].sessionID])
    /\ calls[1].ret # calls[1].before.session_packs[calls[1].sessionID]

\* C5: with an empty pack_rotation every call returns active_pack, whatever
\* session_packs holds for the session, and leaves the state as it was.
C5_EmptyRotation ==
    (Len(calls) = 1 /\ Len(cfg.pack_rotation) = 0) =>
        /\ calls[1].ret = cfg.active_pack
        /\ mem = calls[1].before

\* A call with an empty rotation for a session that has another pack stored.
C5_Witness ==
    /\ Len(calls) = 1
    /\ Len(cfg.pack_rotation) = 0
    /\ Has(mem.session_packs, calls[1].sessionID)
    /\ mem.session_packs[calls[1].sessionID] # cfg.active_pack
    /\ calls[1].ret = cfg.active_pack

-----------------------------------------------------------------------------
(* The plugin with its events handled one at a time. *)

Sound(f) == [file |-> f, line |-> "Work, work."]

\* The pack directory: peon has sounds for every category; peasant has no
\* greeting and no annoyed category, an empty error list, the same file
\* twice for complete and a sound whose file is missing for permission;
\* ghost has no manifest.
PACKS ==
    [peon |->
        [name |-> "peon", display_name |-> "Orc Peon",
         categories |->
            [greeting |-> [sounds |-> <<Sound("a.mp3"), Sound("b.mp3")>>],
             complete |-> [sounds |-> <<Sound("a.mp3"), Sound("b.mp3")>>],
             error |-> [sounds |-> <<Sound("a.mp3")>>],
             permission |-> [sounds |-> <<Sound("a.mp3")>>],
             annoyed |-> [sounds |-> <<Sound("a.mp3"), Sound("b.mp3")>>]]],
     peasant |->
        [name |-> "peasant", display_name |-> "Human Peasant",
         categories |->
            [complete |-> [sounds |-> <<Sound("a.mp3"), Sound("a.mp3")>>],
             error |-> [sounds |-> <<>>],
             permission |-> [sounds |-> <<Sound("b.mp3")>>]]]]

SOUND_FILES == {<<"peon", "a.mp3">>, <<"peon", "b.mp3">>, <<"peasant", "a.mp3">>}

EventsOf(sessions) ==
    {[type |-> t, props |-> [sessionID |-> s]] :
        t \in {"session.created", "session.idle", "session.error", "permission.asked"},
        s \in sessions}
    \cup {[type |-> "message.updated", props |-> [sessionID |-> s, role |-> r]] :
              s \in sessions, r \in {"user", "assistant"}}
    \cup {[type |-> "session.error", props |-> EmptyRecord],
          [type |-> "session.deleted", props |-> EmptyRecord]}

\* config.json as the user may have written it: no rotation, or a rotation
\* of the pack with the gaps and the pack without a manifest, and one
\* category switched off or none.
Rotations == {<<>>, <<"peon", "peasant">>, <<"peasant", "ghost">>}
RawConfigs ==
    {Spread(IF rot = <<>> THEN EmptyRecord ELSE [pack_rotation |-> rot],
            IF off = "none" THEN EmptyRecord
            ELSE [categories |-> [c \in {off} |-> FALSE]]) :
        rot \in {<<>>, <<"peasant", "ghost">>}, off \in Category \cup {"none"}}
ConfigFiles == {Missing, Invalid} \cup {Json(raw) : raw \in RawConfigs}

Init ==
    /\ IdleFns
    /\ IdleRace
    /\ configFile \in ConfigFiles
    /\ stateFile \in {Missing, Invalid}
    /\ packs = PACKS
    /\ soundFiles = SOUND_FILES
    /\ now = 0
    /\ ev = NoEvent
    /\ out = NoOutput
    /\ hist = EmptyRecord

Next ==
    \/ \E e \in EventsOf({"s1"}) : event(e)
    \/ \E action \in {"toggle", "pause", "resume", "status"} : peon_toggle(action)

Spec == Init /\ [][Next]_vars

-----------------------------------------------------------------------------
(* The plugin under pack rotation: two sessions going idle, errors that    *)
(* carry no session id and the user messages of one session, with the      *)
(* user rewriting pack_rotation between events.                            *)

RotationConfigs == {Json([pack_rotation |-> rot]) : rot \in Rotations}

RotationEvents ==
    {[type |-> "session.idle", props |-> [sessionID |-> s]] : s \in {"s1", "s2"}}
    \cup {[type |-> "session.error", props |-> EmptyRecord],
          [type |-> "message.updated", props |-> [sessionID |-> "s1", role |-> "user"]]}

InitSticky ==
    /\ IdleFns
    /\ IdleRace
    /\ configFile \in RotationConfigs
    /\ stateFile = Missing
    /\ packs = PACKS
    /\ soundFiles = SOUND_FILES
    /\ now = 0
    /\ ev = NoEvent
    /\ out = NoOutput
    /\ hist = EmptyRecord

NextSticky ==
    \/ \E e \in RotationEvents : event(e)
    \/ \E file \in RotationConfigs : editConfig(file)

SpecSticky == InitSticky /\ [][NextSticky]_vars

-----------------------------------------------------------------------------
(* The rapid-prompt detector: the user messages of two sessions as the     *)
(* clock moves on, under the default config (three prompts in a window of  *)
(* ten seconds).                                                           *)

PromptEvents ==
    {[type |-> "message.updated", props |-> [sessionID |-> s, role |-> "user"]] :
        s \in {"s1", "s2"}}

InitWindow ==
    /\ IdleFns
    /\ IdleRace
    /\ configFile = Missing
    /\ stateFile = Missing
    /\ packs = PACKS
    /\ soundFiles = SOUND_FILES
    /\ now = 0
    /\ ev = NoEvent
    /\ out = NoOutput
    /\ hist = EmptyRecord

NextWindow ==
    \/ \E e \in PromptEvents : event(e)
    \/ Tick

SpecWindow == InitWindow /\ [][NextWindow]_vars

-----------------------------------------------------------------------------
(* The rapid-prompt detector where no annoyed sound can play: the user     *)
(* messages of one session as the clock moves on, with annoyed switched    *)
(* off, or with a rotation of a pack that has no annoyed category and a    *)
(* pack that has no manifest, or with the default config.                  *)

KeepConfigs ==
    {Missing,
     Json([categories |-> [annoyed |-> FALSE]]),
     Json([pack_rotation |-> <<"peasant", "ghost">>])}

InitKeep ==
    /\ IdleFns
    /\ IdleRace
    /\ configFile \in KeepConfigs
    /\ stateFile = Missing
    /\ packs = PACKS
    /\ soundFiles = SOUND_FILES
    /\ now = 0
    /\ ev = NoEvent
    /\ out = NoOutput
    /\ hist = EmptyRecord

NextKeep ==
    \/ event([type |-> "message.updated", props |-> [sessionID |-> "s1", role |-> "user"]])
    \/ Tick

SpecKeep == InitKeep /\ [][NextKeep]_vars

-----------------------------------------------------------------------------
(* Two handler invocations in two processes that share state.json, one     *)
(* for an event of session s1 and one for an event of session s2.  Each    *)
(* read and each write of the file is one step; what a process computes in *)
(* memory between them belongs to the step of the read.  race lists the    *)
(* reads and writes in the order they happened, with the state read or     *)
(* written.                                                                *)

Proc == {1, 2}
sessionOf(p) == IF p = 1 THEN "s1" ELSE "s2"

RaceEvents(p) ==
    {[type |-> t, props |-> [sessionID |-> sessionOf(p)]] :
        t \in {"session.created", "session.idle"}}
    \cup {[type |-> "message.updated", props |-> [sessionID |-> sessionOf(p), role |-> "user"]]}

\* A rotation of two packs, and every user message counted as rapid.
RACE_CONFIG == Json([pack_rotation |-> <<"peon", "peasant">>, annoyed_threshold |-> 1])

InitRace ==
    /\ IdleFns
    /\ configFile = RACE_CONFIG
    /\ stateFile = Missing
    /\ packs = PACKS
    /\ soundFiles = SOUND_FILES
    /\ now = 0
    /\ ev = NoEvent
    /\ out = NoOutput
    /\ hist = EmptyRecord
    /\ procs = [p \in Proc |-> [pc |-> "idle", event |-> NoEvent, state |-> EMPTY_STATE,
                                out |-> NoOutput]]
    /\ race = <<>>

Logged(p, op, state) == Append(race, [proc |-> p, op |-> op, state |-> state])

raceFrame == UNCHANGED <<configFile, packs, soundFiles, now, ev, out, hist>> /\ UNCHANGED fnVars

\* loadConfig and the switch, up to the first read of state.json.
begin(p, e) ==
    LET config == loadConfig(configFile)
        c == classify(e)
        o == [NoOutput EXCEPT !.category = c.category, !.notify = c.notify,
                              !.notifyMessage = c.notifyMessage, !.sessionID = c.sessionID]
    IN  /\ procs[p].pc = "idle"
        /\ procs' = [procs EXCEPT ![p] =
              IF isPaused(config)
              THEN [@ EXCEPT !.pc = "done", !.event = e, !.out.returned = "paused"]
              ELSE IF isIgnored(e)
              THEN [@ EXCEPT !.pc = "done", !.event = e, !.out.returned = "ignored"]
              ELSE IF e.type = "message.updated"
              THEN [@ EXCEPT !.pc = "observe", !.event = e, !.out = o]
              ELSE IF isDisabled(config, c.category)
              THEN [@ EXCEPT !.pc = "done", !.event = e,
                             !.out = [o EXCEPT !.returned = "disabled"]]
              ELSE [@ EXCEPT !.pc = "select", !.event = e, !.out = o]]
        /\ UNCHANGED <<stateFile, race>>
        /\ raceFrame

\* message.updated: loadState, and the timestamps filtered and extended.
observeLoad(p) ==
    LET config == loadConfig(configFile)
    IN  /\ procs[p].pc = "observe"
        /\ procs' = [procs EXCEPT ![p].pc = "observe save",
                                  ![p].state = observe(config, loadState(stateFile),
                                                       procs[p].out.sessionID, now)]
        /\ race' = Logged(p, "load", loadState(stateFile))
        /\ UNCHANGED stateFile
        /\ raceFrame

\* message.updated: saveState, and the category.
observeSave(p) ==
    LET config == loadConfig(configFile)
        me == procs[p]
        saved == [me.out EXCEPT !.steps = Append(@, "saveState")]
    IN  /\ me.pc = "observe save"
        /\ stateFile' = saveState(me.state)
        /\ race' = Logged(p, "save", loadState(stateFile'))
        /\ procs' = [procs EXCEPT ![p] =
              IF isAnnoyed(config, me.state, me.out.sessionID)
              THEN [@ EXCEPT !.pc = "select", !.out = [saved EXCEPT !.category = "annoyed"]]
              ELSE [@ EXCEPT !.pc = "done", !.out = [saved EXCEPT !.returned = "no category"]]]
        /\ raceFrame

\* loadState, then the pack, the manifest and the sound.
selectLoad(p) ==
    LET config == loadConfig(configFile)
        me == procs[p]
    IN  /\ me.pc = "select"
        /\ \E c \in choose(config, stateFile, me.out) :
              procs' = [procs EXCEPT ![p] =
                  IF c.returned = "picked"
                  THEN [@ EXCEPT !.pc = "select save", !.out = c.out, !.state = c.state]
                  ELSE [@ EXCEPT !.pc = "done", !.state = c.state,
                                 !.out = [c.out EXCEPT !.returned = c.returned]]]
        /\ race' = Logged(p, "load", loadState(stateFile))
        /\ UNCHANGED stateFile
        /\ raceFrame

\* saveState, then playback and the notification.
selectSave(p) ==
    LET me == procs[p]
    IN  /\ me.pc = "select save"
        /\ \E h \in emit(me.out, me.state) :
              /\ stateFile' = h.stateFile
              /\ procs' = [procs EXCEPT ![p].pc = "done", ![p].out = h.out]
        /\ race' = Logged(p, "save", loadState(stateFile'))
        /\ raceFrame

NextRace ==
    \E p \in Proc :
        \/ \E e \in RaceEvents(p) : begin(p, e)
        \/ observeLoad(p)
        \/ observeSave(p)
        \/ selectLoad(p)
        \/ selectSave(p)

SpecRace == InitRace /\ [][NextRace]_vars

-----------------------------------------------------------------------------
(* Overlapping handler invocations in one process.  The event loop runs    *)
(* one invocation at a time and passes to another only when the running    *)
(* one awaits or returns; the handler awaits once, on the query for the    *)
(* application in front.  The reads and writes of state.json are the steps *)
(* of the two-process model; the save is followed by playback, and by the  *)
(* await when the event notifies.                                          *)

Invocation == 1..MaxInvocations

LoopEvents ==
    {[type |-> t, props |-> [sessionID |-> s]] :
        t \in {"session.created", "session.idle"}, s \in {"s1", "s2"}}
    \cup {[type |-> "message.updated", props |-> [sessionID |-> s, role |-> "user"]] :
              s \in {"s1", "s2"}}

InitLoop ==
    /\ IdleFns
    /\ configFile = RACE_CONFIG
    /\ stateFile = Missing
    /\ packs = PACKS
    /\ soundFiles = SOUND_FILES
    /\ now = 0
    /\ ev = NoEvent
    /\ out = NoOutput
    /\ hist = EmptyRecord
    /\ procs = [p \in Invocation |-> [pc |-> "idle", event |-> NoEvent, state |-> EMPTY_STATE,
                                      out |-> NoOutput]]
    /\ race = <<>>

\* Mutant: the reads of state.json are awaited too.
suspended_AtLoad(pc) == pc \in {"awaiting", "observe save", "select save"}

\* The invocation is at an await.
suspended(pc) == pc = "awaiting"

\* The event loop can run invocation p: every other one has not started,
\* has returned or is at an await.
canRun(p) ==
    \A q \in DOMAIN procs \ {p} : procs[q].pc \in {"idle", "done"} \/ suspended(procs[q].pc)

\* saveState, then playback; an event that notifies then awaits the query.
saveThenAwait(p) ==
    LET me == procs[p]
        h == CHOOSE x \in emit([me.out EXCEPT !.notify = FALSE], me.state) : TRUE
        waits == me.out.notify /\ h.out.played
    IN  /\ me.pc = "select save"
        /\ stateFile' = h.stateFile
        /\ procs' = [procs EXCEPT
              ![p].pc = IF waits THEN "awaiting" ELSE "done",
              ![p].out = IF waits
                         THEN [h.out EXCEPT !.notify = TRUE, !.returned = "none"]
                         ELSE [h.out EXCEPT !.notify = me.out.notify]]
        /\ race' = IF waits
                   THEN race \o <<[proc |-> p, op |-> "save", state |-> loadState(stateFile')],
                                  [proc |-> p, op |-> "await", state |-> loadState(stateFile')]>>
                   ELSE Logged(p, "save", loadState(stateFile'))
        /\ raceFrame

\* The query answers, or fails, and the notification follows.
resume(p) ==
    LET me == procs[p]
    IN  /\ me.pc = "awaiting"
        /\ \E h \in notifyIfUnfocused(stateFile, me.out) :
              procs' = [procs EXCEPT ![p].pc = "done", ![p].out = h.out]
        /\ race' = Logged(p, "resume", loadState(stateFile))
        /\ UNCHANGED stateFile
        /\ raceFrame

NextLoop ==
    \E p \in Invocation :
        \/ \E e \in LoopEvents : canRun(p) /\ begin(p, e)
        \/ canRun(p) /\ observeLoad(p)
        \/ canRun(p) /\ observeSave(p)
        \/ canRun(p) /\ selectLoad(p)
        \/ canRun(p) /\ saveThenAwait(p)
        \/ canRun(p) /\ resume(p)

SpecLoop == InitLoop /\ [][NextLoop]_vars

-----------------------------------------------------------------------------
(* Claims about the handler, under Spec.  A step that handles an event     *)
(* leaves that event in ev; every other step leaves NoEvent there.         *)

Emitted(o) == o.played \/ o.notified

\* C7: while config.paused is true, handling an event of any type changes
\* nothing in state.json, saves nothing, and asks for no playback and no
\* notification.
C7_PausedNoEffects ==
    [][(ev' # NoEvent /\ loadConfig(configFile).paused)
          => /\ stateFile' = stateFile
             /\ ~Emitted(out')
             /\ out'.steps = <<>>]_vars

\* A user message handled while paused, with prompts already on record.
C7_Witness ==
    /\ ev.type = "message.updated"
    /\ ev.props.role = "user"
    /\ loadConfig(configFile).paused
    /\ out.returned = "paused"
    /\ Has(loadState(stateFile).prompt_timestamps, ev.props.sessionID)

SwitchedCategory == {"greeting", "complete", "error", "permission"}

\* C8: when config.categories[c] is false for the category c (greeting,
\* complete, error or permission) of an event handled while not paused,
\* the handler changes nothing in state.json, saves nothing and asks for no
\* playback and no notification; when the key c is missing from
\* config.categories the event goes on to pack resolution as it does with
\* the key set to true.
C8_DisabledCategory ==
    [][\A c \in SwitchedCategory :
          LET config == loadConfig(configFile)
          IN  (/\ ev' # NoEvent
               /\ ev'.type \in HandledType
               /\ classify(ev').category = c
               /\ ~config.paused)
              => /\ (Has(config.categories, c) /\ config.categories[c] = FALSE)
                    => (stateFile' = stateFile /\ ~Emitted(out') /\ out'.steps = <<>>)
                 /\ (~Has(config.categories, c) \/ config.categories[c] = TRUE)
                    => (out'.category = c /\ out'.pack # "")]_vars

\* An error event handled with categories.error false while a session's
\* state is on file.
C8_Witness ==
    /\ ev.type = "session.error"
    /\ ~loadConfig(configFile).paused
    /\ Has(loadConfig(configFile).categories, "error")
    /\ loadConfig(configFile).categories["error"] = FALSE
    /\ out.returned = "disabled"
    /\ stateFile.kind = "json"

\* C9 as claimed: the handler of every event completes without raising.
C9_NeverRaises == out.returned # "TypeError"

-----------------------------------------------------------------------------
(* Claims about pack rotation, under SpecSticky. *)

\* C3: an event handled while pack_rotation holds the pack stored for a
\* session leaves that session's entry of session_packs as it is; so the
\* entry changes only in an event handled while its pack is not in the
\* rotation.
C3_StickyAssignment ==
    [][\A s \in DOMAIN loadState(stateFile).session_packs :
          LET p == loadState(stateFile).session_packs[s]
          IN  (ev' # NoEvent /\ Includes(loadConfig(configFile).pack_rotation, p))
              => /\ Has(loadState(stateFile').session_packs, s)
                 /\ loadState(stateFile').session_packs[s] = p]_vars

\* An event of a session resolved to the pack stored for it earlier, with
\* another session holding a different pack.
C3_Witness ==
    /\ ev.type = "session.idle"
    /\ out.existing # ""
    /\ out.pack = out.existing
    /\ Includes(loadConfig(configFile).pack_rotation, out.existing)
    /\ Get(loadState(stateFile).session_packs, out.sessionID, "") = out.existing
    /\ \E s \in DOMAIN loadState(stateFile).session_packs :
          loadState(stateFile).session_packs[s] # out.existing

-----------------------------------------------------------------------------
(* Claims about the rapid-prompt detector, under SpecWindow. *)

InWindow(s, config) ==
    {i \in 1..Len(hist[s]) : now - hist[s][i] < config.annoyed_window_seconds}

\* C6: a user message of session s handled at time now, with the config
\* not paused and annoyed not switched off, selects the annoyed category
\* exactly when the user messages of s observed at times t with
\* now - t < annoyed_window_seconds, this one included, number at least
\* annoyed_threshold.  With window 10 and threshold 3 the third of the
\* messages at 0, 1, 2 selects it and a fourth at 13 does not.
C6_SlidingWindow ==
    LET config == loadConfig(configFile)
        s == ev.props.sessionID
    IN  (/\ ev.type = "message.updated"
         /\ ev.props.role = "user"
         /\ ~config.paused
         /\ ~(Has(config.categories, "annoyed") /\ config.categories["annoyed"] = FALSE))
        => /\ (out.category = "annoyed")
                <=> (Cardinality(InWindow(s, config)) >= config.annoyed_threshold)
           /\ (config.annoyed_window_seconds = 10 /\ config.annoyed_threshold = 3)
                => /\ hist[s] = <<0, 1, 2>> => out.category = "annoyed"
                   /\ hist[s] = <<0, 1, 2, 13>> => out.category = "none"

\* The messages of s1 at 0, 1, 2 and then at 13: the last one is alone in
\* its window and selects nothing.
C6_Witness ==
    /\ ev = [type |-> "message.updated", props |-> [sessionID |-> "s1", role |-> "user"]]
    /\ loadConfig(configFile).annoyed_window_seconds = 10
    /\ loadConfig(configFile).annoyed_threshold = 3
    /\ hist["s1"] = <<0, 1, 2, 13>>
    /\ now = 13
    /\ out.category = "none"
    /\ loadState(stateFile).prompt_timestamps["s1"] = <<13>>
    /\ Has(loadState(stateFile).last_played, "annoyed")

-----------------------------------------------------------------------------
(* Claims about concurrent invocations, under SpecRace. *)

LastLoad(q, j) ==
    CHOOSE i \in 1..j :
        /\ race[i].proc = q
        /\ race[i].op = "load"
        /\ \A k \in (i + 1)..j : ~(race[k].proc = q /\ race[k].op = "load")

\* Write j follows a write k of the other process that came after the read
\* write j is based on.
Overwrites(j, k) ==
    /\ race[j].op = "save"
    /\ race[k].op = "save"
    /\ race[k].proc # race[j].proc
    /\ LastLoad(race[j].proc, j) < k
    /\ k < j

\* C10: when an invocation reads state.json before the invocation of the
\* other session writes it and writes after that write, the file holds what
\* the later writer had in memory: for the earlier writer's session, the
\* session_packs entry and the prompt timestamps the later writer had read,
\* and last_played as read except for the later writer's own category.  So
\* what the earlier invocation wrote is lost, and once both invocations are
\* done the file is the last write.
C10_LastWriterWins ==
    /\ \A j \in 1..Len(race), k \in 1..Len(race) :
          Overwrites(j, k) =>
              LET read == race[LastLoad(race[j].proc, j)].state
                  written == race[j].state
                  s == sessionOf(race[k].proc)
              IN  /\ (Has(written.session_packs, s) <=> Has(read.session_packs, s))
                  /\ Get(written.session_packs, s, "") = Get(read.session_packs, s, "")
                  /\ Get(written.prompt_timestamps, s, <<>>) = Get(read.prompt_timestamps, s, <<>>)
                  /\ \A c \in Category \ {procs[race[j].proc].out.category} :
                        /\ (Has(written.last_played, c) <=> Has(read.last_played, c))
                        /\ Get(written.last_played, c, "") = Get(read.last_played, c, "")
    /\ ((\A p \in Proc : procs[p].pc = "done") /\ Len(race) > 0 /\ race[Len(race)].op = "save")
          => loadState(stateFile) = race[Len(race)].state

\* Both invocations read the empty state, then s1's wrote its pack, then
\* s2's wrote: both are done and the file has no pack for s1.
C10_Witness ==
    /\ \A p \in Proc : procs[p].pc = "done"
    /\ Len(race) = 4
    /\ race[1].op = "load" /\ race[2].op = "load"
    /\ race[3].op = "save" /\ race[3].proc = 1
    /\ race[4].op = "save" /\ race[4].proc = 2
    /\ Has(race[3].state.session_packs, "s1")
    /\ Has(race[3].state.last_played, "complete")
    /\ procs[1].out.played
    /\ ~Has(loadState(stateFile).session_packs, "s1")
    /\ ~Has(loadState(stateFile).last_played, "complete")

-----------------------------------------------------------------------------
(* Claims about the switch on the event type, under Spec. *)

Expected(category, sessionID, o) ==
    /\ o.category = category
    /\ o.sessionID = sessionID

\* C11: an event handled while not paused is classified by its type:
\* session.created as greeting, session.idle as complete, session.error as
\* error and permission.asked as permission, each with the session id the
\* event carries, and session.error with the empty id when it carries
\* none; a message whose role is not user and an event of any other type
\* changes nothing in state.json, saves nothing and asks for no playback
\* and no notification.
C11_Classification ==
    [][(ev' # NoEvent /\ ~loadConfig(configFile).paused) =>
          LET e == ev'
              id == Get(e.props, "sessionID", "")
          IN  /\ e.type = "session.created" => Expected("greeting", e.props.sessionID, out')
              /\ e.type = "session.idle" => Expected("complete", e.props.sessionID, out')
              /\ e.type = "session.error" => Expected("error", id, out')
              /\ e.type = "permission.asked" => Expected("permission", e.props.sessionID, out')
              /\ (e.type = "message.updated" /\ e.props.role = "user")
                    => out'.sessionID = e.props.sessionID
              /\ (\/ e.type = "message.updated" /\ e.props.role # "user"
                  \/ e.type \notin {"session.created", "session.idle", "session.error",
                                    "permission.asked", "message.updated"})
                    => /\ stateFile' = stateFile
                       /\ ~Emitted(out')
                       /\ out'.steps = <<>>]_vars

\* An assistant message ignored after the prompts of the session were
\* recorded.
C11_Witness ==
    /\ ev.type = "message.updated"
    /\ ev.props.role = "assistant"
    /\ ~loadConfig(configFile).paused
    /\ out.returned = "ignored"
    /\ Has(loadState(stateFile).prompt_timestamps, ev.props.sessionID)

-----------------------------------------------------------------------------
(* Claims about loadConfig, under SpecConfig. *)

\* The default record, field by field; the volume 0.5 in hundredths.
TheDefaults ==
    [active_pack |-> "peon",
     volume |-> 50,
     paused |-> FALSE,
     categories |-> [greeting |-> TRUE, complete |-> TRUE, error |-> TRUE,
                     permission |-> TRUE, annoyed |-> TRUE],
     annoyed_threshold |-> 3,
     annoyed_window_seconds |-> 10,
     pack_rotation |-> <<>>]

\* C12: a load of a config.json that is not JSON returns exactly the
\* default record; when that record is then written back the next load
\* returns the same record again; and a load of a JSON object returns, for
\* every field, the object's value when it has the field and the default
\* when it has not.
C12_ConfigSelfHealing ==
    \A i \in 1..Len(calls) :
        calls[i].op = "load" =>
            /\ calls[i].file.kind = "invalid" => calls[i].ret = TheDefaults
            /\ (i > 2 /\ calls[i - 1].op = "save" /\ calls[i - 2].op = "load"
                      /\ calls[i - 2].file.kind = "invalid")
                  => (calls[i].ret = TheDefaults /\ calls[i].ret = calls[i - 2].ret)
            /\ calls[i].file.kind = "json" =>
                  /\ DOMAIN calls[i].ret = DOMAIN TheDefaults \cup DOMAIN calls[i].file.raw
                  /\ \A f \in DOMAIN TheDefaults :
                        calls[i].ret[f] = IF f \in DOMAIN calls[i].file.raw
                                          THEN calls[i].file.raw[f]
                                          ELSE TheDefaults[f]

\* A file that is not JSON loaded, the defaults written back and loaded
\* again.
C12_Witness ==
    /\ Len(calls) = 3
    /\ calls[1].op = "load" /\ calls[1].file = Invalid
    /\ calls[2].op = "save"
    /\ calls[3].op = "load" /\ calls[3].file = Json(TheDefaults)
    /\ calls[3].ret = calls[1].ret

-----------------------------------------------------------------------------
(* Claims about the stored timestamps, under SpecKeep. *)

StillInWindow(timestamps, t, window) == SelectSeq(timestamps, LAMBDA x : t - x < window)

\* C13: every user message of a session handled while not paused leaves in
\* state.json, for that session, the timestamps that were stored before it
\* and are less than annoyed_window_seconds old, followed by the current
\* time: when the threshold is not reached, when categories.annoyed is
\* false, and when the pack resolved has no manifest or no annoyed sounds.
C13_TimestampsAlwaysStored ==
    [][(/\ ev' # NoEvent
        /\ ev'.type = "message.updated"
        /\ ev'.props.role = "user"
        /\ ~loadConfig(configFile).paused)
       => LET s == ev'.props.sessionID
              before == Get(loadState(stateFile).prompt_timestamps, s, <<>>)
              window == loadConfig(configFile).annoyed_window_seconds
          IN  /\ Has(loadState(stateFile').prompt_timestamps, s)
              /\ loadState(stateFile').prompt_timestamps[s]
                    = Append(StillInWindow(before, now, window), now)]_vars

\* The threshold reached with annoyed switched off: nothing plays, the
\* first timestamp has expired and the other three are on file.
C13_Witness ==
    /\ ev.type = "message.updated"
    /\ isDisabled(loadConfig(configFile), "annoyed")
    /\ out.returned = "no category"
    /\ hist["s1"] = <<0, 11, 12, 13>>
    /\ loadState(stateFile).prompt_timestamps["s1"] = <<11, 12, 13>>

-----------------------------------------------------------------------------
(* Claims about what follows pack resolution, under Spec. *)

SameEntry(a, b, k) == (Has(a, k) <=> Has(b, k)) /\ (Has(a, k) => a[k] = b[k])

\* C14: an event that resolves to a pack with no manifest asks for no
\* playback and no notification, ends without raising, and saves nothing
\* after the resolution: last_played and session_packs are on file as they
\* were, so a pack picked for the session during the event is not stored.
C14_NoManifestNoOp ==
    [][(ev' # NoEvent /\ out'.pack # "" /\ ~Has(packs, out'.pack))
       => /\ out'.returned = "no manifest"
          /\ ~Emitted(out')
          /\ out'.sound = Null
          /\ out'.steps = IF ev'.type = "message.updated" THEN <<"saveState">> ELSE <<>>
          /\ loadState(stateFile').last_played = loadState(stateFile).last_played
          /\ loadState(stateFile').session_packs = loadState(stateFile).session_packs
          /\ ev'.type # "message.updated" => stateFile' = stateFile]_vars

\* A session with no pack stored draws the pack that has no manifest, and
\* still has no pack stored afterwards.
C14_Witness ==
    /\ ev.type = "session.idle"
    /\ out.pack = "ghost"
    /\ out.existing = ""
    /\ out.returned = "no manifest"
    /\ ~Has(loadState(stateFile).session_packs, ev.props.sessionID)

\* C16: when the manifest of the resolved pack lists no sounds for the
\* category of the event, or has no such category, the outcome is one and
\* the same: the handler returns with no sound, asks for no playback and no
\* notification, leaves last_played as it was, and saves the state as pack
\* resolution left it.
C16_EmptyIsAbsent ==
    [][(/\ ev' # NoEvent
        /\ out'.pack # ""
        /\ Has(packs, out'.pack)
        /\ LET cats == packs[out'.pack].categories
           IN  \/ ~Has(cats, out'.category)
               \/ cats[out'.category].sounds = <<>>)
       => LET before == loadState(stateFile)
              after == loadState(stateFile')
              rotation == loadConfig(configFile).pack_rotation
          IN  /\ out'.returned = "no sound"
              /\ out'.sound = Null
              /\ ~Emitted(out')
              /\ stateFile'.kind = "json"
              /\ after.last_played = before.last_played
              /\ after.session_packs =
                    IF Len(rotation) = 0 THEN before.session_packs
                    ELSE Put(before.session_packs, out'.sessionID, out'.pack)
              /\ \A s \in Session \ {out'.sessionID} :
                    SameEntry(after.prompt_timestamps, before.prompt_timestamps, s)]_vars

\* An error event resolved to the pack whose error list is empty.
C16_Witness ==
    /\ ev.type = "session.error"
    /\ out.pack = "peasant"
    /\ Has(packs["peasant"].categories, "error")
    /\ packs["peasant"].categories["error"].sounds = <<>>
    /\ out.returned = "no sound"
    /\ Has(loadState(stateFile).session_packs, out.sessionID)

\* C17: when pickSound returns an entry for the category of the event,
\* state.json holds that entry's file as last_played of the category, and
\* the save that put it there is the step right before the playback
\* request, and happens also when the sound file is missing and nothing
\* plays; last_played of the other categories is as it was, and so are the
\* timestamps and packs of the other sessions, the timestamps of every
\* session unless the event is a user message, and the packs of every
\* session when there is no rotation.
C17_LastPlayedRecorded ==
    [][(ev' # NoEvent /\ out'.sound.kind = "entry")
       => LET before == loadState(stateFile)
              after == loadState(stateFile')
              c == out'.category
              steps == out'.steps
          IN  /\ Has(after.last_played, c)
              /\ after.last_played[c] = out'.sound.file
              /\ \E i \in 1..Len(steps) : steps[i] = "saveState"
              /\ \A i \in 1..Len(steps) :
                    steps[i] = "afplay" => (i > 1 /\ steps[i - 1] = "saveState")
              /\ \A d \in Category \ {c} : SameEntry(after.last_played, before.last_played, d)
              /\ \A s \in Session \ {out'.sessionID} :
                    /\ SameEntry(after.prompt_timestamps, before.prompt_timestamps, s)
                    /\ SameEntry(after.session_packs, before.session_packs, s)
              /\ ev'.type # "message.updated"
                    => after.prompt_timestamps = before.prompt_timestamps
              /\ Len(loadConfig(configFile).pack_rotation) = 0
                    => after.session_packs = before.session_packs]_vars

\* A sound picked whose file is missing on disk: nothing played, and the
\* pick is on file as last played.
C17_Witness ==
    /\ ev.type = "permission.asked"
    /\ out.pack = "peasant"
    /\ out.sound.kind = "entry"
    /\ out.returned = "no file"
    /\ ~out.played
    /\ loadState(stateFile).last_played["permission"] = out.sound.file

NotifyCategory == {"complete", "error", "permission"}

Before(steps, a, b) ==
    \E i \in 1..Len(steps), j \in 1..Len(steps) : i < j /\ steps[i] = a /\ steps[j] = b

\* C18: a notification is asked for only in an event of category complete,
\* error or permission in which playback was asked for before it and the
\* application in front, as far as the query told, is not one of the known
\* terminals; and in every such event it is asked for.  A query that failed
\* names no application.
C18_NotificationConditions ==
    /\ out.notified
          => /\ out.category \in NotifyCategory
             /\ out.played
             /\ Before(out.steps, "afplay", "display notification")
             /\ out.app \notin {"Terminal", "iTerm2", "Warp", "Alacritty", "kitty",
                                "WezTerm", "Ghostty"}
    /\ (/\ ev # NoEvent
        /\ out.category \in NotifyCategory
        /\ out.played
        /\ out.app \notin {"Terminal", "iTerm2", "Warp", "Alacritty", "kitty",
                           "WezTerm", "Ghostty"})
          => out.notified

\* An error event played, the query for the application in front failed,
\* and the notification was asked for.
C18_Witness ==
    /\ ev.type = "session.error"
    /\ out.played
    /\ Before(out.steps, "afplay", "await frontmost")
    /\ out.app = ""
    /\ out.notified

-----------------------------------------------------------------------------
(* Claims about the pack of a session from event to event, under           *)
(* SpecSticky.                                                             *)

\* C15 as claimed: two events of one session handled one right after the
\* other, pack_rotation being non-empty and not edited in between, resolve
\* to the same pack, whether or not the packs of the rotation have a
\* manifest.
C15_StablePack ==
    [][(/\ ev # NoEvent
        /\ ev' # NoEvent
        /\ out.pack # ""
        /\ out'.pack # ""
        /\ out'.sessionID = out.sessionID
        /\ Len(loadConfig(configFile).pack_rotation) > 0)
       => out'.pack = out.pack]_vars

-----------------------------------------------------------------------------
(* Claims about overlapping invocations in one event loop, under SpecLoop. *)

\* state.json as it is read right before entry j of race.
FileBefore(j) ==
    IF \E k \in 1..(j - 1) : race[k].op = "save"
    THEN race[CHOOSE k \in 1..(j - 1) :
                 /\ race[k].op = "save"
                 /\ \A m \in (k + 1)..(j - 1) : race[m].op # "save"].state
    ELSE EMPTY_STATE

\* The user messages of session s whose timestamps have been saved.
Observed(s) ==
    {p \in DOMAIN procs :
        /\ procs[p].event.type = "message.updated"
        /\ procs[p].event.props.sessionID = s
        /\ procs[p].pc \notin {"idle", "observe", "observe save"}}

\* The invocations that saved a pack for session s.
Resolved(s) ==
    {p \in DOMAIN procs :
        /\ procs[p].out.sessionID = s
        /\ \E j \in 1..Len(race) :
              race[j].proc = p /\ race[j].op = "save" /\ Has(race[j].state.session_packs, s)}

\* C19: with the invocations taking turns only where one awaits or
\* returns, no step of another invocation falls between a read of
\* state.json and the write that follows it, and an invocation that has
\* reached its await reads and writes no more; so every write is based on
\* the file as it is at that moment, and the file keeps a timestamp for
\* every user message observed and a pack for every session resolved under
\* the rotation.
C19_NoLostUpdate ==
    /\ \A i \in 1..Len(race), j \in 1..Len(race) :
          (/\ i < j
           /\ race[i].op = "load"
           /\ race[j].op = "save"
           /\ race[j].proc = race[i].proc
           /\ \A k \in (i + 1)..(j - 1) : ~(race[k].proc = race[i].proc /\ race[k].op = "save"))
          => \A k \in i..j : race[k].proc = race[i].proc
    /\ \A i \in 1..Len(race), j \in 1..Len(race) :
          (i < j /\ race[i].op = "await" /\ race[j].proc = race[i].proc)
          => race[j].op = "resume"
    /\ \A j \in 1..Len(race) :
          race[j].op = "save" => race[LastLoad(race[j].proc, j)].state = FileBefore(j)
    /\ \A s \in {"s1", "s2"} :
          /\ Len(Get(loadState(stateFile).prompt_timestamps, s, <<>>))
                = Cardinality(Observed(s))
          /\ Resolved(s) # {} => Has(loadState(stateFile).session_packs, s)

\* The first invocation played for s1 and awaits; the second ran from its
\* read to its write for s2 meanwhile; the first resumed after that, and
\* the file has the packs of both sessions.
C19_Witness ==
    /\ \A p \in DOMAIN procs : procs[p].pc = "done"
    /\ Len(race) >= 6
    /\ race[1].op = "load" /\ race[2].op = "save" /\ race[3].op = "await"
    /\ race[4].op = "load" /\ race[4].proc # race[3].proc
    /\ race[5].op = "save" /\ race[5].proc = race[4].proc
    /\ \E j \in 6..Len(race) : race[j].op = "resume" /\ race[j].proc = race[3].proc
    /\ Has(loadState(stateFile).session_packs, "s1")
    /\ Has(loadState(stateFile).session_packs, "s2")

-----------------------------------------------------------------------------
(* Claims about the stored timestamps of two sessions, under SpecWindow. *)

\* The timestamps of a session that were less than window old at its
\* last one.
OwnWindow(timestamps, window) ==
    SelectSeq(timestamps, LAMBDA x : timestamps[Len(timestamps)] - x < window)

\* C20: right after a user message of session s handled at time now, the
\* timestamps on file for s are not empty, are in non-decreasing order, end
\* with now and are all less than annoyed_window_seconds old; the
\* timestamps on file for any session are those of its own messages that
\* were in the window at its last message, so a message of s leaves those
\* of every other session as they were; and the annoyed category is
\* selected exactly when the messages of s itself that are less than
\* annoyed_window_seconds old number at least annoyed_threshold, whatever
\* the other sessions sent.
C20_TimestampStore ==
    LET config == loadConfig(configFile)
        stored == loadState(stateFile).prompt_timestamps
    IN  /\ DOMAIN stored = DOMAIN hist
        /\ \A x \in DOMAIN hist :
              stored[x] = OwnWindow(hist[x], config.annoyed_window_seconds)
        /\ (ev.type = "message.updated" /\ ev.props.role = "user" /\ ~config.paused)
              => LET s == ev.props.sessionID
                     own == {i \in 1..Len(hist[s]) :
                                now - hist[s][i] < config.annoyed_window_seconds}
                 IN  /\ Has(stored, s)
                     /\ Len(stored[s]) > 0
                     /\ stored[s][Len(stored[s])] = now
                     /\ \A i \in 1..Len(stored[s]), j \in 1..Len(stored[s]) :
                           i < j => stored[s][i] <= stored[s][j]
                     /\ \A i \in 1..Len(stored[s]) :
                           now - stored[s][i] < config.annoyed_window_seconds
                     /\ (out.category = "annoyed")
                           <=> (Cardinality(own) >= config.annoyed_threshold)

\* Three messages of s2 within the window select annoyed while the one
\* message of s1, by now expired, is on file as it was.
C20_Witness ==
    /\ ev = [type |-> "message.updated", props |-> [sessionID |-> "s2", role |-> "user"]]
    /\ now = 13
    /\ hist = [s1 |-> <<0>>, s2 |-> <<11, 12, 13>>]
    /\ out.category = "annoyed"
    /\ loadState(stateFile).prompt_timestamps = [s1 |-> <<0>>, s2 |-> <<11, 12, 13>>]

====
